---- MODULE Spec2Model ----
(***************************************************************************)
(* Model of theseus' profile launch pipeline and process supervision       *)
(* (src/theseus/src-old/data/profiles.rs: Profile::run, Profile::wait_for, *)
(* Profile::kill).                                                         *)
(*                                                                         *)
(* One behaviour is one launch attempt of one profile: the call of         *)
(* Profile::run, the hook processes it starts, the game process it spawns, *)
(* and the wait_for / kill calls its caller makes on the returned handle.  *)
(***************************************************************************)
EXTENDS Integers, Sequences, FiniteSets, TLC

----------------------------------------------------------------------------
(* Option<T>: None is the empty sequence, Some(x) the one-element sequence. *)

None == <<>>

Some(x) == <<x>>

UnwrapOr(o, d) == IF o = None THEN d ELSE o[1]

----------------------------------------------------------------------------
(* Bounds of the model. *)

\* the largest number of pre-launch hook commands a profile sets
MaxHooks == 3

\* the number of wait_for / kill calls the caller makes on the handle
MaxCalls == 2

----------------------------------------------------------------------------
(* Program constants. *)

\* version_info.java_version.major_version >= 16 selects the 17-tier path
JAVA_17_MIN_MAJOR == 16

\* MemorySettings::default().maximum
DEFAULT_MEMORY_MAXIMUM == 2048

\* result.code().unwrap_or(-1)
NO_EXIT_CODE == -1

MemorySettingsDefault == [minimum |-> None, maximum |-> DEFAULT_MEMORY_MAXIMUM]

WindowSizeDefault == <<854, 480>>

ProfileHooksDefault == [pre_launch |-> {}, wrapper |-> None, post_exit |-> {}]

----------------------------------------------------------------------------
(* Exit statuses of processes and their translation. *)

ExitCodes == {0, 3}

\* std::process::ExitStatus: code() is None when a signal ended the process
ExitStatuses == {[code |-> Some(c)] : c \in ExitCodes} \cup {[code |-> None]}

SignalStatus == [code |-> None]

success(status) == status.code = Some(0)

Ok == [kind |-> "Ok"]

ExitError(c) == [kind |-> "ExitError", code |-> c]

Err(k) == [kind |-> k]

\* a missing exit code reported as 0 instead of -1
TranslateNoDefault(status) ==
    IF success(status) THEN Ok ELSE ExitError(UnwrapOr(status.code, 0))

\* the match on result.success() of wait_for
Translate(status) ==
    IF success(status) THEN Ok ELSE ExitError(UnwrapOr(status.code, NO_EXIT_CODE))

----------------------------------------------------------------------------
(* The inputs of a launch: the profile, the global settings, the remote     *)
(* version manifest and the files on disk.                                  *)

\* a hook command string; the i-th command a profile sets
HookCmd(i) == <<"hook", i>>

GlobalHookCmd == <<"global-hook", 1>>

ProfileJavaPath == "/profile/bin/java"

Java17Path == "/opt/java17/bin/java"

Java8Path == "/opt/java8/bin/java"

JavaPaths == {ProfileJavaPath, Java17Path, Java8Path}

ProfileJavaArgs == <<"-Xprofile">>

GlobalJavaArgs == <<"-Xglobal">>

KnownVersion == "1.18.2"

UnknownVersion == "0.0-unknown"

\* Option<JavaVersion> of a version_info record
JavaVersions == {None} \cup {Some([major_version |-> m]) : m \in {8, 15, 16, 17}}

\* Option<JavaSettings>, lines 59-65
JavaOverrides ==
    {None} \cup {Some([install |-> i, extra_arguments |-> a]) :
                    i \in {None, Some(ProfileJavaPath)},
                    a \in {None, Some(ProfileJavaArgs)}}

\* Option<MemorySettings>, lines 67-72
MemoryOverrides ==
    {None, Some([minimum |-> None, maximum |-> 8192]),
     Some([minimum |-> Some(512), maximum |-> 8192])}

\* Option<WindowSize>, lines 83-84
ResolutionOverrides == {None, Some(<<1920, 1080>>)}

ProfileWrapper == "profile-wrapper"

GlobalWrapper == "global-wrapper"

\* Option<ProfileHooks>, lines 92-100: the first n commands, with or without a wrapper
HookOverrides ==
    {None} \cup {Some([pre_launch |-> {HookCmd(i) : i \in 1..n}, wrapper |-> w,
                       post_exit |-> {}]) :
                    n \in 0..MaxHooks, w \in {None, Some(ProfileWrapper)}}

\* the hook overrides of at most one command
SmallHookOverrides ==
    {h \in HookOverrides : h = None \/ Cardinality(h[1].pre_launch) <= 1}

GlobalHooks ==
    {ProfileHooksDefault,
     [pre_launch |-> {GlobalHookCmd}, wrapper |-> Some(GlobalWrapper), post_exit |-> {}]}

GlobalMemory == {MemorySettingsDefault, [minimum |-> Some(1024), maximum |-> 4096]}

MkProfile(version, java, memory, resolution, hooks) ==
    [path |-> "/profiles/example",
     metadata |-> [name |-> "Example Pack", game_version |-> version],
     java |-> java, memory |-> memory, resolution |-> resolution, hooks |-> hooks]

MkSettings(j17, j8, memory, hooks) ==
    [java_17_path |-> j17, java_8_path |-> j8, custom_java_args |-> GlobalJavaArgs,
     memory |-> memory, game_resolution |-> WindowSizeDefault, hooks |-> hooks]

MkManifest(jv) == {[id |-> KnownVersion, java_version |-> jv]}

----------------------------------------------------------------------------
(* SettingsResolver: the effective value of each setting, as Profile::run   *)
(* computes it.                                                             *)

\* self.hooks.as_ref().unwrap_or(&settings.hooks).pre_launch
pre_launch_hooks(p, s) == UnwrapOr(p.hooks, s.hooks).pre_launch

\* the 17-tier path only above the threshold
JavaInstallStrict(p, s, vi) ==
    IF p.java # None /\ p.java[1].install # None
    THEN p.java[1].install
    ELSE IF vi.java_version # None
            /\ vi.java_version[1].major_version > JAVA_17_MIN_MAJOR
         THEN s.java_17_path
         ELSE s.java_8_path

\* an unset tier path replaced by the other tier's
JavaInstallFallback(p, s, vi) ==
    IF p.java # None /\ p.java[1].install # None
    THEN p.java[1].install
    ELSE IF vi.java_version # None
            /\ vi.java_version[1].major_version >= JAVA_17_MIN_MAJOR
         THEN (IF s.java_17_path = None THEN s.java_8_path ELSE s.java_17_path)
         ELSE (IF s.java_8_path = None THEN s.java_17_path ELSE s.java_8_path)

\* the match on self.java: Option<&PathBuf> before ok_or_else
JavaInstall(p, s, vi) ==
    IF p.java # None /\ p.java[1].install # None
    THEN p.java[1].install
    ELSE IF vi.java_version # None
            /\ vi.java_version[1].major_version >= JAVA_17_MIN_MAJOR
         THEN s.java_17_path
         ELSE s.java_8_path

\* self.java.as_ref().and_then(|it| it.extra_arguments.as_ref())
\*     .unwrap_or(&settings.custom_java_args)
JavaArgs(p, s) ==
    IF p.java # None /\ p.java[1].extra_arguments # None
    THEN p.java[1].extra_arguments[1]
    ELSE s.custom_java_args

\* the profile's wrapper only when it is set, the default otherwise
WrapperPerCategory(p, s) ==
    IF p.hooks # None /\ p.hooks[1].wrapper # None
    THEN p.hooks[1].wrapper
    ELSE s.hooks.wrapper

\* self.hooks.as_ref().map_or(&settings.hooks.wrapper, |it| &it.wrapper)
Wrapper(p, s) == IF p.hooks = None THEN s.hooks.wrapper ELSE p.hooks[1].wrapper

\* an override without a minimum completed by the default's minimum
MemoryMerged(p, s) ==
    IF p.memory = None THEN s.memory
    ELSE [minimum |-> (IF p.memory[1].minimum = None THEN s.memory.minimum
                       ELSE p.memory[1].minimum),
          maximum |-> p.memory[1].maximum]

\* self.memory.unwrap_or(settings.memory)
Memory(p, s) == UnwrapOr(p.memory, s.memory)

\* self.resolution.unwrap_or(settings.game_resolution)
Resolution(p, s) == UnwrapOr(p.resolution, s.game_resolution)

----------------------------------------------------------------------------
VARIABLES
    profile,         \* self: the profile being launched
    globalSettings,  \* what Settings::get() yields
    manifest,        \* the remote version records
    disk,            \* the paths that exist on disk
    pc,              \* the position of Profile::run
    settings,        \* run's local settings (None before the join)
    version_info,    \* run's local version_info (None before the join)
    pending,         \* the pre-launch hooks the for loop has not reached
    hook,            \* the loop's current hook (None outside the loop body)
    hooksStarted,    \* the hooks whose process was spawned, in the order of the spawns
    hookProcs,       \* the hooks whose process is running
    hooksExited,     \* [hook, status, awaited] of the hook processes that exited
    java_install,    \* run's local java_install (None before it is resolved)
    launched,        \* the arguments handed to launch_minecraft (None before)
    runResult,       \* what run returned (None while it runs)
    child,           \* the game process behind the handle run returned
    supOp,           \* the supervisor call in progress or last made
    supPc,           \* its position
    exitedAtCall,    \* the child's exit status when that call began, if it had exited
    result,          \* wait_for's local result
    supRet,          \* what the call returned
    calls            \* the number of supervisor calls made

VARIABLES
    store,           \* Profiles.0 of the state module: canonical path -> Profile
    files,           \* the profile.json of each directory, if it has one
    db,              \* the database entry under PROFILE_SUBTREE, if there is one
    batch,           \* the entry staged in the caller's batch, if any
    storeRet,        \* the store call that returned last, and its result
    syncPc,          \* the position of Profiles::sync
    syncTodo,        \* the keys whose write sync has not started
    syncInFlight,    \* the keys whose write was started and has not finished
    syncSkipped,     \* the keys whose write the last sync never started
    loaded,          \* the store Profiles::init built last, if it built one
    staged,          \* the map whose keys the staged entry lists
    persisted,       \* the map whose sidecars and index are what the disk and the database hold
    storeOps         \* the number of store calls made

storeVars == <<store, files, db, batch, storeRet, syncPc, syncTodo, syncInFlight,
               syncSkipped, loaded, staged, persisted, storeOps>>

VARIABLES
    lmap,            \* PROFILES: unset (None), or the map of the legacy store
    registry,        \* Settings.profiles: the registry of known profile paths
    sidecars,        \* the profile.json of each directory, if it has one
    readers,         \* the tasks that hold a read guard of PROFILES
    writer,          \* the task that holds its write guard, if any
    tasks,           \* of each task: its position, its locals and what its last call returned
    legacyOps        \* the number of calls made to the legacy store

legacyVars == <<lmap, registry, sidecars, readers, writer, tasks, legacyOps>>

VARIABLES
    built,           \* the Profile being built: None before Profile::new succeeded
    builtRet,        \* the call made last on it, what it returned and what it found
    copies,          \* the files copied into the profile directory
    builderOps       \* the number of calls made

builderVars == <<built, builtRet, copies, builderOps>>

VARIABLES
    doc,             \* a sidecar document made from the Profile being built, if any
    parsed           \* the directory that document was read from last, and the result

serdeVars == <<doc, parsed>>

\* the variables of the components a launch does not touch
restVars == <<storeVars, legacyVars, builderVars, serdeVars>>

envVars == <<profile, globalSettings, manifest, disk, restVars>>

runVars == <<pc, settings, version_info, pending, hook, hooksStarted, java_install,
             launched, runResult>>

hookVars == <<hookProcs, hooksExited>>

supVars == <<supOp, supPc, exitedAtCall, result, supRet, calls>>

vars == <<envVars, runVars, hookVars, child, supVars>>

NoChild == [state |-> "none", status |-> None, reaped |-> FALSE, killed |-> FALSE]

\* the locals and processes of a launch that has not begun
InitLaunch ==
    /\ pc = "NotStarted"
    /\ settings = None
    /\ version_info = None
    /\ pending = {}
    /\ hook = None
    /\ hooksStarted = <<>>
    /\ hookProcs = {}
    /\ hooksExited = {}
    /\ java_install = None
    /\ launched = None
    /\ runResult = None
    /\ child = NoChild
    /\ supOp = "none"
    /\ supPc = "idle"
    /\ exitedAtCall = None
    /\ result = None
    /\ supRet = None
    /\ calls = 0

\* launches that differ in their hooks and in whether the version is known
InitHooks ==
    /\ profile \in {MkProfile(v, None, None, None, h) :
                      v \in {KnownVersion, UnknownVersion}, h \in HookOverrides}
    /\ globalSettings \in {MkSettings(Some(Java17Path), Some(Java8Path),
                                      MemorySettingsDefault, gh) : gh \in GlobalHooks}
    /\ manifest = MkManifest(Some([major_version |-> 17]))
    /\ disk = JavaPaths

\* launches that differ in what decides the java runtime
InitJava ==
    /\ profile \in {MkProfile(KnownVersion, j, None, None, None) : j \in JavaOverrides}
    /\ globalSettings \in {MkSettings(j17, j8, MemorySettingsDefault, gh) :
                             j17 \in {None, Some(Java17Path)},
                             j8 \in {None, Some(Java8Path)}, gh \in GlobalHooks}
    /\ manifest \in {MkManifest(jv) : jv \in JavaVersions}
    /\ disk \in SUBSET JavaPaths

\* launches that differ in the overrides and the defaults that are merged
InitMerge ==
    /\ profile \in {MkProfile(KnownVersion, j, m, r, h) :
                      j \in JavaOverrides, m \in MemoryOverrides,
                      r \in ResolutionOverrides, h \in SmallHookOverrides}
    /\ globalSettings \in {MkSettings(Some(Java17Path), Some(Java8Path), gm, gh) :
                             gm \in GlobalMemory, gh \in GlobalHooks}
    /\ manifest = MkManifest(Some([major_version |-> 17]))
    /\ disk = JavaPaths

\* a store that holds nothing and was never persisted
StoreIdle ==
    /\ store = <<>>
    /\ files = <<>>
    /\ db = None
    /\ batch = None
    /\ storeRet = None
    /\ syncPc = "idle"
    /\ syncTodo = {}
    /\ syncInFlight = {}
    /\ syncSkipped = {}
    /\ loaded = None
    /\ staged = None
    /\ persisted = None
    /\ storeOps = 0

\* a legacy store nobody has called
LegacyIdle ==
    /\ lmap = None
    /\ registry = {}
    /\ sidecars = <<>>
    /\ readers = {}
    /\ writer = None
    /\ tasks = <<>>
    /\ legacyOps = 0

\* no Profile being built
BuilderIdle ==
    /\ built = None
    /\ builtRet = None
    /\ copies = {}
    /\ builderOps = 0

\* no document made
SerdeIdle == doc = None /\ parsed = None

\* the components a launch does not touch, at rest
RestIdle == StoreIdle /\ LegacyIdle /\ BuilderIdle /\ SerdeIdle

Init == InitLaunch /\ RestIdle /\ (InitHooks \/ InitJava \/ InitMerge)

----------------------------------------------------------------------------
(* Profile::run, step 1: the join of Settings::get() and the version lookup. *)

\* a lookup that does not compare the ids
FindVersionAny(m, id) == m

\* manifest.minecraft.versions.iter().find(|it| it.id == game_version)
FindVersion(m, id) == {v \in m : v.id = id}

\* both futures of try_join! succeed; the effective pre-launch hooks are computed
RunJoinOk ==
    /\ pc = "NotStarted"
    /\ \E v \in FindVersion(manifest, profile.metadata.game_version) :
           version_info' = Some(v)
    /\ settings' = Some(globalSettings)
    /\ pending' = pre_launch_hooks(profile, globalSettings)
    /\ pc' = "RunningHooks"
    /\ UNCHANGED <<envVars, hook, hooksStarted, java_install, launched, runResult,
                   hookVars, child, supVars>>

\* find yields nothing: ok_or_else gives FormatError("invalid or unknown version")
RunJoinVersionUnknown ==
    /\ pc = "NotStarted"
    /\ FindVersion(manifest, profile.metadata.game_version) = {}
    /\ runResult' = Some(Err("FormatError"))
    /\ pc' = "Returned"
    /\ UNCHANGED <<envVars, settings, version_info, pending, hook, hooksStarted,
                   java_install, launched, hookVars, child, supVars>>

\* the version is listed but fetch_version_info fails
RunJoinFetchError ==
    /\ pc = "NotStarted"
    /\ FindVersion(manifest, profile.metadata.game_version) # {}
    /\ runResult' = Some(Err("FetchError"))
    /\ pc' = "Returned"
    /\ UNCHANGED <<envVars, settings, version_info, pending, hook, hooksStarted,
                   java_install, launched, hookVars, child, supVars>>

----------------------------------------------------------------------------
(* Profile::run, step 3: the for loop over the pre-launch hooks.  A HashSet  *)
(* iterates in an unspecified order, so the next hook is any pending one.   *)

\* a spawn that does not wait for the process
RunHookSpawnDetached ==
    /\ pc = "RunningHooks"
    /\ \E h \in pending :
        /\ pending' = pending \ {h}
        /\ hooksStarted' = Append(hooksStarted, h)
        /\ hookProcs' = hookProcs \cup {h}
    /\ UNCHANGED <<envVars, pc, hook, settings, version_info, java_install, launched,
                   runResult, hooksExited, child, supVars>>

\* Command::new(..).args(..).current_dir(..).spawn() succeeds; run awaits wait()
RunHookSpawn ==
    /\ pc = "RunningHooks"
    /\ \E h \in pending :
        /\ pending' = pending \ {h}
        /\ hook' = Some(h)
        /\ hooksStarted' = Append(hooksStarted, h)
        /\ hookProcs' = hookProcs \cup {h}
    /\ pc' = "HookWait"
    /\ UNCHANGED <<envVars, settings, version_info, java_install, launched, runResult,
                   hooksExited, child, supVars>>

\* spawn()? fails: no process is started and run returns the I/O error
RunHookSpawnError ==
    /\ pc = "RunningHooks"
    /\ pending # {}
    /\ runResult' = Some(Err("IoError"))
    /\ pc' = "Returned"
    /\ UNCHANGED <<envVars, settings, version_info, pending, hook, hooksStarted,
                   java_install, launched, hookVars, child, supVars>>

\* a running hook process terminates, with an exit code or by a signal; awaited
\* tells whether run is awaiting its wait() at that moment
HookExit ==
    /\ \E h \in hookProcs, st \in ExitStatuses :
        /\ hookProcs' = hookProcs \ {h}
        /\ hooksExited' = hooksExited \cup
               {[hook |-> h, status |-> st, awaited |-> (hook = Some(h))]}
    /\ UNCHANGED <<envVars, runVars, child, supVars>>

\* a loop that ignores the exit status of a hook
HookAbortsNever(status) == FALSE

\* if !result.success()
HookAborts(status) == ~success(status)

\* wait().await yields the exit status of the current hook's process
RunHookWait ==
    /\ pc = "HookWait"
    /\ \E e \in hooksExited :
        /\ hook = Some(e.hook)
        /\ IF HookAborts(e.status)
           THEN /\ runResult' = Some(ExitError(UnwrapOr(e.status.code, NO_EXIT_CODE)))
                /\ pc' = "Returned"
           ELSE /\ runResult' = runResult
                /\ pc' = "RunningHooks"
    /\ hook' = None
    /\ UNCHANGED <<envVars, settings, version_info, pending, hooksStarted,
                   java_install, launched, hookVars, child, supVars>>

\* wait().await? fails while the hook's process is still running
RunHookWaitError ==
    /\ pc = "HookWait"
    /\ \E h \in hookProcs : hook = Some(h)
    /\ runResult' = Some(Err("IoError"))
    /\ pc' = "Returned"
    /\ hook' = None
    /\ UNCHANGED <<envVars, settings, version_info, pending, hooksStarted,
                   java_install, launched, hookVars, child, supVars>>

\* the iterator is exhausted: the loop ends
RunHooksDone ==
    /\ pc = "RunningHooks"
    /\ pending = {}
    /\ pc' = "JavaResolving"
    /\ UNCHANGED <<envVars, settings, version_info, pending, hook, hooksStarted,
                   java_install, launched, runResult, hookVars, child, supVars>>

----------------------------------------------------------------------------
(* Profile::run, step 4: the java runtime.                                  *)

\* a launch that does not look at the disk
JavaExistsAlways(path) == TRUE

\* java_install.exists()
JavaExists(path) == path \in disk

\* the match yields None: ok_or_else gives JavaError("No Java installed for version ..")
RunJavaUnset ==
    /\ pc = "JavaResolving"
    /\ JavaInstall(profile, settings[1], version_info[1]) = None
    /\ runResult' = Some(Err("JavaError"))
    /\ pc' = "Returned"
    /\ UNCHANGED <<envVars, settings, version_info, pending, hook, hooksStarted,
                   java_install, launched, hookVars, child, supVars>>

\* !java_install.exists(): JavaError("Could not find java install: ..")
RunJavaMissing ==
    /\ pc = "JavaResolving"
    /\ JavaInstall(profile, settings[1], version_info[1]) # None
    /\ ~JavaExists(JavaInstall(profile, settings[1], version_info[1])[1])
    /\ java_install' = JavaInstall(profile, settings[1], version_info[1])
    /\ runResult' = Some(Err("JavaError"))
    /\ pc' = "Returned"
    /\ UNCHANGED <<envVars, settings, version_info, pending, hook, hooksStarted,
                   launched, hookVars, child, supVars>>

\* the path is set and exists
RunJavaOk ==
    /\ pc = "JavaResolving"
    /\ JavaInstall(profile, settings[1], version_info[1]) # None
    /\ JavaExists(JavaInstall(profile, settings[1], version_info[1])[1])
    /\ java_install' = JavaInstall(profile, settings[1], version_info[1])
    /\ pc' = "Spawning"
    /\ UNCHANGED <<envVars, settings, version_info, pending, hook, hooksStarted,
                   launched, runResult, hookVars, child, supVars>>

----------------------------------------------------------------------------
(* Profile::run, steps 5 and 6: the effective settings and the spawn.       *)

\* the arguments of the call of launch_minecraft
LaunchArgs ==
    [game_version |-> profile.metadata.game_version,
     path |-> profile.path,
     java_install |-> java_install[1],
     java_args |-> JavaArgs(profile, settings[1]),
     wrapper |-> Wrapper(profile, settings[1]),
     memory |-> Memory(profile, settings[1]),
     resolution |-> Resolution(profile, settings[1])]

\* launch_minecraft returns the handle of the spawned game process
RunLaunchOk ==
    /\ pc = "Spawning"
    /\ launched' = Some(LaunchArgs)
    /\ child' = [state |-> "running", status |-> None, reaped |-> FALSE,
                 killed |-> FALSE]
    /\ runResult' = Some(Ok)
    /\ pc' = "Returned"
    /\ UNCHANGED <<envVars, settings, version_info, pending, hook, hooksStarted,
                   java_install, hookVars, supVars>>

\* launch_minecraft fails: no game process
RunLaunchError ==
    /\ pc = "Spawning"
    /\ launched' = Some(LaunchArgs)
    /\ runResult' = Some(Err("ProcessError"))
    /\ pc' = "Returned"
    /\ UNCHANGED <<envVars, settings, version_info, pending, hook, hooksStarted,
                   java_install, hookVars, child, supVars>>

----------------------------------------------------------------------------
(* The game process and its supervision: Profile::wait_for, Profile::kill.  *)
(* The caller owns the handle exclusively (&mut Child), so its calls do not *)
(* overlap.                                                                 *)

\* the game process terminates by itself, or by a signal from outside
ChildExit ==
    /\ child.state = "running"
    /\ \E st \in ExitStatuses :
           child' = [child EXCEPT !.state = "exited", !.status = Some(st)]
    /\ UNCHANGED <<envVars, runVars, hookVars, supVars>>

\* the caller holds a handle and no call is in progress
CanCall ==
    /\ child.state # "none"
    /\ supPc \in {"idle", "done"}
    /\ calls < MaxCalls

\* wait_for is called: it awaits running.wait()
WaitForCall ==
    /\ CanCall
    /\ supOp' = "wait_for"
    /\ supPc' = "wait"
    /\ exitedAtCall' = child.status
    /\ result' = None
    /\ supRet' = None
    /\ calls' = calls + 1
    /\ UNCHANGED <<envVars, runVars, hookVars, child>>

\* kill is called on a running process: running.kill() ends it and reaps it
KillRunning ==
    /\ CanCall
    /\ child.state = "running"
    /\ child' = [state |-> "exited", status |-> Some(SignalStatus), reaped |-> TRUE,
                 killed |-> TRUE]
    /\ supOp' = "kill"
    /\ supPc' = "wait"
    /\ exitedAtCall' = None
    /\ result' = None
    /\ supRet' = None
    /\ calls' = calls + 1
    /\ UNCHANGED <<envVars, runVars, hookVars>>

\* kill is called on a process that exited and whose status nobody collected:
\* the signal changes nothing and running.kill() reaps the process
KillExited ==
    /\ CanCall
    /\ child.state = "exited"
    /\ ~child.reaped
    /\ child' = [child EXCEPT !.reaped = TRUE]
    /\ supOp' = "kill"
    /\ supPc' = "wait"
    /\ exitedAtCall' = child.status
    /\ result' = None
    /\ supRet' = None
    /\ calls' = calls + 1
    /\ UNCHANGED <<envVars, runVars, hookVars>>

\* kill is called on a handle that already holds the exit status (an earlier
\* wait_for or kill collected it).  What running.kill() answers is the
\* library's choice: Ok(()), and kill goes on to wait_for
KillReapedOk ==
    /\ CanCall
    /\ child.reaped
    /\ supOp' = "kill"
    /\ supPc' = "wait"
    /\ exitedAtCall' = child.status
    /\ result' = None
    /\ supRet' = None
    /\ calls' = calls + 1
    /\ UNCHANGED <<envVars, runVars, hookVars, child>>

\* ... or Err(InvalidInput, "can't kill an exited process"), which the ? of
\* running.kill().await? returns to the caller
KillReapedError ==
    /\ CanCall
    /\ child.reaped
    /\ supOp' = "kill"
    /\ supPc' = "done"
    /\ exitedAtCall' = child.status
    /\ result' = None
    /\ supRet' = Some(Err("IoError"))
    /\ calls' = calls + 1
    /\ UNCHANGED <<envVars, runVars, hookVars, child>>

\* running.wait() yields the exit status; it is translated
WaitForReturn ==
    /\ supPc = "wait"
    /\ child.state = "exited"
    /\ result' = child.status
    /\ child' = [child EXCEPT !.reaped = TRUE]
    /\ supRet' = Some(Translate(child.status[1]))
    /\ supPc' = "done"
    /\ UNCHANGED <<envVars, runVars, hookVars, supOp, exitedAtCall, calls>>

\* running.wait() fails while the process runs: ProcessError { process: "minecraft" }
WaitForError ==
    /\ supPc = "wait"
    /\ child.state = "running"
    /\ supRet' = Some(Err("ProcessError"))
    /\ supPc' = "done"
    /\ UNCHANGED <<envVars, runVars, hookVars, child, supOp, exitedAtCall, result,
                   calls>>

----------------------------------------------------------------------------
Next ==
    \/ RunJoinOk
    \/ RunJoinVersionUnknown
    \/ RunJoinFetchError
    \/ RunHookSpawn
    \/ RunHookSpawnError
    \/ HookExit
    \/ RunHookWait
    \/ RunHookWaitError
    \/ RunHooksDone
    \/ RunJavaUnset
    \/ RunJavaMissing
    \/ RunJavaOk
    \/ RunLaunchOk
    \/ RunLaunchError
    \/ ChildExit
    \/ WaitForCall
    \/ KillRunning
    \/ KillExited
    \/ KillReapedOk
    \/ KillReapedError
    \/ WaitForReturn
    \/ WaitForError

Spec == Init /\ [][Next]_vars

----------------------------------------------------------------------------
(* Notions the properties below share.                                      *)

Range(seq) == {seq[i] : i \in 1..Len(seq)}

\* the hooks that exited with a failure while run awaited them
FailedHooks == {e \in hooksExited : e.awaited /\ ~(e.status.code = Some(0))}

\* a game process was spawned
GameSpawned == child.state # "none"

\* the exit code an ExitError carries for a status
CarriedCode(status) == IF status.code = None THEN -1 ELSE status.code[1]

----------------------------------------------------------------------------
(* C1: when a pre-launch hook process that run awaits exits with a non-zero *)
(* or unavailable exit code, the pipeline aborts at once: the failed hook   *)
(* is the last hook of the launch that was started, no hook process runs,   *)
(* no game process is spawned, and once run has returned its result is      *)
(* ExitError with that hook's exit code, -1 when the code is unavailable.   *)
C1_HookAbort ==
    \A e \in FailedHooks :
        /\ hooksStarted[Len(hooksStarted)] = e.hook
        /\ hookProcs = {}
        /\ ~GameSpawned
        /\ launched = None
        /\ pc \in {"HookWait", "Returned"}
        /\ pc = "Returned" => runResult = Some(ExitError(CarriedCode(e.status)))

\* the hook-abort law: three pre-launch hooks, the second exits with code 3,
\* the third was never started and run returned ExitError(3)
C1_Witness ==
    /\ Len(hooksStarted) = 2
    /\ Cardinality(pending) = 1
    /\ \E e \in hooksExited : e.hook = hooksStarted[2] /\ e.status.code = Some(3)
    /\ runResult = Some(ExitError(3))

\* a hook ended by a signal: run returned ExitError(-1)
C1_WitnessNoCode ==
    /\ \E e \in hooksExited : e.status.code = None
    /\ runResult = Some(ExitError(-1))

----------------------------------------------------------------------------
(* C2: the pre-launch hooks of a launch run strictly one after another: at  *)
(* most one hook process runs at any time, it is the hook started last, and *)
(* every hook started before it has terminated successfully.                *)
C2_HooksSequential ==
    /\ Cardinality(hookProcs) <= 1
    /\ \A h \in hookProcs :
        /\ hooksStarted[Len(hooksStarted)] = h
        /\ \A i \in 1..(Len(hooksStarted) - 1) :
               [hook |-> hooksStarted[i], status |-> [code |-> Some(0)],
                awaited |-> TRUE] \in hooksExited

\* the third hook of a launch runs after two others ran
C2_Witness ==
    /\ Len(hooksStarted) = 3
    /\ hookProcs # {}

----------------------------------------------------------------------------
(* The state of a launch attempt in the terms of the launch state machine.  *)
(* Aborted stands for the error returns of run that the machine does not    *)
(* name: unknown version or failed fetch, I/O failure of a hook's spawn or  *)
(* wait, failure of launch_minecraft.                                       *)
LaunchState ==
    CASE pc = "NotStarted" -> "NotStarted"
      [] pc \in {"RunningHooks", "HookWait"} -> "RunningHooks"
      [] pc = "JavaResolving" -> "JavaResolving"
      [] pc = "Spawning" -> "Spawning"
      [] pc = "Returned" /\ runResult[1].kind = "ExitError" -> "HookFailed"
      [] pc = "Returned" /\ runResult[1].kind = "JavaError" -> "JavaMissing"
      [] pc = "Returned" /\ runResult[1].kind = "Ok" /\ child.state = "running"
            -> "Running"
      [] pc = "Returned" /\ runResult[1].kind = "Ok" /\ child.state = "exited"
            /\ child.killed -> "Killed"
      [] pc = "Returned" /\ runResult[1].kind = "Ok" /\ child.state = "exited"
            /\ ~child.killed /\ child.status = Some([code |-> Some(0)])
            -> "ExitedSuccess"
      [] pc = "Returned" /\ runResult[1].kind = "Ok" /\ child.state = "exited"
            /\ ~child.killed /\ child.status # Some([code |-> Some(0)])
            -> "ExitedFailure"
      [] OTHER -> "Aborted"

MachineEdges ==
    {<<"NotStarted", "RunningHooks">>,
     <<"RunningHooks", "HookFailed">>, <<"RunningHooks", "JavaResolving">>,
     <<"JavaResolving", "JavaMissing">>, <<"JavaResolving", "Spawning">>,
     <<"Spawning", "Running">>,
     <<"Running", "ExitedSuccess">>, <<"Running", "ExitedFailure">>,
     <<"Running", "Killed">>}

TerminalStates == {"HookFailed", "JavaMissing", "ExitedSuccess", "ExitedFailure", "Killed"}

\* the pre-launch hooks in effect for the launch
EffectiveHooks ==
    IF profile.hooks = None
    THEN globalSettings.hooks.pre_launch
    ELSE profile.hooks[1].pre_launch

C3_Step ==
    /\ LaunchState' # LaunchState =>
        \/ <<LaunchState, LaunchState'>> \in MachineEdges
        \/ /\ LaunchState' = "Aborted"
           /\ LaunchState \in {"NotStarted", "RunningHooks", "Spawning"}
    /\ LaunchState \in TerminalStates => LaunchState' = LaunchState
    /\ (~GameSpawned /\ GameSpawned') =>
        /\ LaunchState = "Spawning"
        /\ \A h \in EffectiveHooks : \E e \in hooksExited :
               e.hook = h /\ e.awaited /\ e.status.code = Some(0)
        /\ hookProcs = {}
        /\ java_install # None
        /\ java_install[1] \in disk

(* C3: a launch attempt moves between the states of the machine NotStarted  *)
(* -> RunningHooks -> {HookFailed | JavaResolving} -> {JavaMissing |        *)
(* Spawning} -> Running -> {ExitedSuccess | ExitedFailure | Killed} only    *)
(* along its edges (an error return the machine does not name ends the      *)
(* attempt from NotStarted, RunningHooks or Spawning); the game process is  *)
(* spawned only from Spawning, after every effective pre-launch hook exited *)
(* successfully and the resolved java path was found on disk; HookFailed,   *)
(* JavaMissing, ExitedSuccess, ExitedFailure and Killed have no successor.  *)
C3_LaunchStateMachine == [][C3_Step]_vars

\* a launch with hooks whose game process was ended by kill
C3_Witness ==
    /\ LaunchState = "Killed"
    /\ Len(hooksStarted) >= 1

----------------------------------------------------------------------------
(* C4: when no remote version record matches profile.metadata.game_version, *)
(* run starts no pre-launch hook and spawns no game process, and what it    *)
(* returns is the unknown-version error.                                    *)
C4_VersionNotFound ==
    (\A v \in manifest : v.id # profile.metadata.game_version) =>
        /\ hooksStarted = <<>>
        /\ hookProcs = {}
        /\ ~GameSpawned
        /\ launched = None
        /\ pc \in {"NotStarted", "Returned"}
        /\ pc = "Returned" => runResult = Some(Err("FormatError"))

\* an unknown version on a profile that has pre-launch hooks: run has returned
C4_Witness ==
    /\ profile.metadata.game_version = UnknownVersion
    /\ EffectiveHooks # {}
    /\ pc = "Returned"

----------------------------------------------------------------------------
(* The java path the launch is to use, as the selection rule states it.     *)

HasInstallOverride == profile.java # None /\ profile.java[1].install # None

\* the major java version the version record requires, 0 when it declares none
RequiredMajor ==
    LET declared == {v \in manifest : v.id = profile.metadata.game_version
                                      /\ v.java_version # None}
    IN  IF declared = {} THEN 0
        ELSE (CHOOSE v \in declared : TRUE).java_version[1].major_version

ChosenJava ==
    CASE HasInstallOverride -> profile.java[1].install
      [] ~HasInstallOverride /\ RequiredMajor >= 16 -> globalSettings.java_17_path
      [] OTHER -> globalSettings.java_8_path

\* run got as far as resolving java
JavaReached ==
    \/ pc \in {"Spawning"}
    \/ pc = "Returned" /\ runResult[1].kind \in {"JavaError", "ProcessError", "Ok"}

(* C5: the java path run resolves is the profile's install override when it *)
(* has one, whatever the version record says; otherwise the global 17-tier  *)
(* path exactly when the record declares a major version >= 16, and the     *)
(* global 8-tier path in every other case.                                  *)
C5_JavaSelection ==
    /\ java_install # None => java_install = ChosenJava
    /\ launched # None => Some(launched[1].java_install) = ChosenJava
    /\ (JavaReached /\ java_install = None) => ChosenJava = None

\* major version 16 without an override: the 17-tier path is used
C5_Witness ==
    /\ ~HasInstallOverride
    /\ RequiredMajor = 16
    /\ launched # None
    /\ launched[1].java_install = Java17Path

\* major version 15 without an override: the 8-tier path is used
C5_WitnessLow ==
    /\ ~HasInstallOverride
    /\ RequiredMajor = 15
    /\ launched # None
    /\ launched[1].java_install = Java8Path

(* C6: whenever the chosen java path is unset or does not exist on disk,    *)
(* run never reaches the spawn and no game process exists, and a run that   *)
(* got as far as resolving java returned JavaError; the other tier's path   *)
(* is not used instead.                                                     *)
C6_JavaNotFound ==
    (ChosenJava = None \/ ChosenJava[1] \notin disk) =>
        /\ ~GameSpawned
        /\ launched = None
        /\ pc # "Spawning"
        /\ java_install \in {None, ChosenJava}
        /\ pc = "Returned" =>
               runResult[1].kind \in {"JavaError", "FormatError", "FetchError",
                                      "IoError", "ExitError"}
        /\ JavaReached => runResult = Some(Err("JavaError"))

\* the 17-tier path is unset while the 8-tier path exists: JavaError, no fallback
C6_Witness ==
    /\ ~HasInstallOverride
    /\ RequiredMajor = 17
    /\ globalSettings.java_17_path = None
    /\ globalSettings.java_8_path = Some(Java8Path)
    /\ Java8Path \in disk
    /\ runResult = Some(Err("JavaError"))

\* the override does not exist on disk while both tiers do: JavaError
C6_WitnessOverride ==
    /\ HasInstallOverride
    /\ ProfileJavaPath \notin disk
    /\ {Java17Path, Java8Path} \subseteq disk
    /\ runResult = Some(Err("JavaError"))

----------------------------------------------------------------------------
(* C7: for java extra arguments, memory and resolution, the value passed to *)
(* the game spawn is the profile's override when present and the global     *)
(* default otherwise, a category as a whole: a memory override without a    *)
(* minimum gives an unset minimum whatever the default's minimum, and the   *)
(* extra arguments do not depend on a java install override.                *)
C7_OverrideOrDefault ==
    launched # None =>
        /\ launched[1].memory =
               (IF profile.memory = None THEN globalSettings.memory
                ELSE profile.memory[1])
        /\ launched[1].resolution =
               (IF profile.resolution = None THEN globalSettings.game_resolution
                ELSE profile.resolution[1])
        /\ launched[1].java_args =
               (IF profile.java = None \/ profile.java[1].extra_arguments = None
                THEN globalSettings.custom_java_args
                ELSE profile.java[1].extra_arguments[1])
        /\ (profile.memory # None /\ profile.memory[1].minimum = None) =>
               launched[1].memory.minimum = None
        /\ (profile.java # None /\ profile.java[1].extra_arguments = None) =>
               launched[1].java_args = globalSettings.custom_java_args

\* a memory override without minimum over a default that has one
C7_Witness ==
    /\ launched # None
    /\ profile.memory = Some([minimum |-> None, maximum |-> 8192])
    /\ globalSettings.memory.minimum = Some(1024)
    /\ launched[1].memory = [minimum |-> None, maximum |-> 8192]

\* a java install override without extra arguments: the default arguments
C7_WitnessArgs ==
    /\ launched # None
    /\ HasInstallOverride
    /\ profile.java[1].extra_arguments = None
    /\ launched[1].java_args = GlobalJavaArgs

----------------------------------------------------------------------------
----------------------------------------------------------------------------
(* C9: wait_for returns success exactly when the process terminated with    *)
(* exit code 0; for any other exit code c it returns ExitError(c), and when *)
(* the code is unavailable (a signal ended the process) ExitError(-1).  The *)
(* status it translates is the one the process terminated with.             *)
C9_WaitFor ==
    (supOp = "wait_for" /\ supPc = "done") =>
        /\ supRet = Some(Ok) <=> (result # None /\ result[1].code = Some(0))
        /\ result # None =>
            /\ child.state = "exited"
            /\ result = child.status
            /\ result[1].code \notin {None, Some(0)} =>
                   supRet = Some(ExitError(result[1].code[1]))
            /\ result[1].code = None => supRet = Some(ExitError(-1))
        /\ result = None => supRet = Some(Err("ProcessError"))

\* wait_for on a process a signal ended
C9_Witness ==
    /\ supOp = "wait_for"
    /\ supPc = "done"
    /\ child.status = Some([code |-> None])
    /\ supRet = Some(ExitError(-1))

\* wait_for on a process that exited with code 3, and with code 0
C9_WitnessCode ==
    /\ supOp = "wait_for"
    /\ supPc = "done"
    /\ child.status = Some([code |-> Some(3)])
    /\ supRet = Some(ExitError(3))

----------------------------------------------------------------------------
(* C10: kill called on a process that has already exited does not fail      *)
(* because of the termination request: it returns the translation of the    *)
(* exit result that had already occurred, success for code 0 and            *)
(* ExitError(code) otherwise.                                               *)
C10_KillAfterExit ==
    (supOp = "kill" /\ supPc = "done" /\ exitedAtCall # None) =>
        supRet = Some(IF exitedAtCall[1].code = Some(0) THEN Ok
                      ELSE ExitError(CarriedCode(exitedAtCall[1])))

----------------------------------------------------------------------------
(* The profile store of the state module (src/state/profiles.rs): paths,   *)
(* profile values and their serialized forms.                              *)

\* a path is the sequence of its components
DirA == <<"profiles", "a">>

DirB == <<"profiles", "b">>

\* another spelling of DirA
AliasA == <<"profiles", ".", "a">>

\* a path under which the disk holds nothing
Gone == <<"profiles", "gone">>

\* the directories on disk
Directories == {DirA, DirB}

Paths == {DirA, AliasA, DirB, Gone}

NotCurDir(c) == c # "."

\* Path::canonicalize: the one spelling of the directory the path leads to,
\* an I/O error (None) when it leads nowhere
canonicalize(path) ==
    LET resolved == SelectSeq(path, NotCurDir)
    IN  IF resolved \in Directories THEN Some(resolved) ELSE None

\* a map with no entries
EmptyMap == [k \in {} |-> None]

\* HashMap::insert
Put(m, k, v) == [x \in DOMAIN m \cup {k} |-> IF x = k THEN v ELSE m[x]]

\* HashMap::remove
Del(m, k) == [x \in DOMAIN m \ {k} |-> m[x]]

\* names are sequences of characters
Whitespace == {" ", "\t"}

Chars == Whitespace \cup {"P"}

RECURSIVE TrimStart(_)
TrimStart(s) == IF s # <<>> /\ Head(s) \in Whitespace THEN TrimStart(Tail(s)) ELSE s

RECURSIVE TrimEnd(_)
TrimEnd(s) ==
    IF s # <<>> /\ s[Len(s)] \in Whitespace THEN TrimEnd(SubSeq(s, 1, Len(s) - 1)) ELSE s

\* str::trim
trim(s) == TrimEnd(TrimStart(s))

\* the format version new profiles get
CURRENT_FORMAT_VERSION == 1

\* a result that carries a value
OkOf(v) == [kind |-> "Ok", value |-> v]

\* a profile made whatever its name
NewAnyName(name, version, path) ==
    IF canonicalize(path) = None THEN Err("IOError")
    ELSE OkOf([path |-> canonicalize(path)[1],
               metadata |-> [name |-> name, icon |-> None, game_version |-> version,
                             loader |-> "vanilla", loader_version |-> None,
                             format_version |-> CURRENT_FORMAT_VERSION],
               java |-> None, memory |-> None, resolution |-> None, hooks |-> None])

\* Profile::new, lines 89-115
New(name, version, path) ==
    IF trim(name) = <<>> THEN Err("InputError")
    ELSE IF canonicalize(path) = None THEN Err("IOError")
    ELSE OkOf([path |-> canonicalize(path)[1],
               metadata |-> [name |-> name, icon |-> None, game_version |-> version,
                             loader |-> "vanilla", loader_version |-> None,
                             format_version |-> CURRENT_FORMAT_VERSION],
               java |-> None, memory |-> None, resolution |-> None, hooks |-> None])

\* ProfileMetadata as serde writes it, lines 41-52: unset options are left out
MetadataToJson(m) ==
    LET keys == {"name", "game_version", "loader", "format_version"}
                \cup (IF m.icon # None THEN {"icon"} ELSE {})
                \cup (IF m.loader_version # None THEN {"loader_version"} ELSE {})
    IN  [k \in keys |->
            CASE k = "name" -> m.name
              [] k = "game_version" -> m.game_version
              [] k = "loader" -> m.loader
              [] k = "format_version" -> m.format_version
              [] k = "icon" -> m.icon[1]
              [] k = "loader_version" -> m.loader_version[1]]

\* every loader read as the default one
MetadataFromJsonVanilla(j) ==
    IF {"name", "game_version", "format_version"} \subseteq DOMAIN j
    THEN Some([name |-> j.name,
               icon |-> IF "icon" \in DOMAIN j THEN Some(j.icon) ELSE None,
               game_version |-> j.game_version,
               loader |-> "vanilla",
               loader_version |-> IF "loader_version" \in DOMAIN j
                                  THEN Some(j.loader_version) ELSE None,
               format_version |-> j.format_version])
    ELSE None

\* ProfileMetadata as serde reads it: a missing loader is the default one,
\* a missing name, game_version or format_version is an error (None)
MetadataFromJson(j) ==
    IF {"name", "game_version", "format_version"} \subseteq DOMAIN j
    THEN Some([name |-> j.name,
               icon |-> IF "icon" \in DOMAIN j THEN Some(j.icon) ELSE None,
               game_version |-> j.game_version,
               loader |-> IF "loader" \in DOMAIN j THEN j.loader ELSE "vanilla",
               loader_version |-> IF "loader_version" \in DOMAIN j
                                  THEN Some(j.loader_version) ELSE None,
               format_version |-> j.format_version])
    ELSE None

\* JavaSettings, lines 80-86
JavaToJson(v) ==
    LET keys == (IF v.install # None THEN {"install"} ELSE {})
                \cup (IF v.extra_arguments # None THEN {"extra_arguments"} ELSE {})
    IN  [k \in keys |-> IF k = "install" THEN v.install[1] ELSE v.extra_arguments[1]]

JavaFromJson(j) ==
    [install |-> IF "install" \in DOMAIN j THEN Some(j.install) ELSE None,
     extra_arguments |-> IF "extra_arguments" \in DOMAIN j
                         THEN Some(j.extra_arguments) ELSE None]

\* MemorySettings
MemoryToJson(v) ==
    LET keys == {"maximum"} \cup (IF v.minimum # None THEN {"minimum"} ELSE {})
    IN  [k \in keys |-> IF k = "maximum" THEN v.maximum ELSE v.minimum[1]]

MemoryFromJson(j) ==
    IF "maximum" \in DOMAIN j
    THEN Some([minimum |-> IF "minimum" \in DOMAIN j THEN Some(j.minimum) ELSE None,
               maximum |-> j.maximum])
    ELSE None

\* the hooks: empty command sets and an unset wrapper are left out
HooksToJson(v) ==
    LET keys == (IF v.pre_launch # {} THEN {"pre_launch"} ELSE {})
                \cup (IF v.wrapper # None THEN {"wrapper"} ELSE {})
                \cup (IF v.post_exit # {} THEN {"post_exit"} ELSE {})
    IN  [k \in keys |->
            CASE k = "pre_launch" -> v.pre_launch
              [] k = "wrapper" -> v.wrapper[1]
              [] k = "post_exit" -> v.post_exit]

HooksFromJson(j) ==
    [pre_launch |-> IF "pre_launch" \in DOMAIN j THEN j.pre_launch ELSE {},
     wrapper |-> IF "wrapper" \in DOMAIN j THEN Some(j.wrapper) ELSE None,
     post_exit |-> IF "post_exit" \in DOMAIN j THEN j.post_exit ELSE {}]

\* Profile as serde writes it, lines 27-39: the path is skipped
ToJson(p) ==
    LET keys == {"metadata"}
                \cup (IF p.java # None THEN {"java"} ELSE {})
                \cup (IF p.memory # None THEN {"memory"} ELSE {})
                \cup (IF p.resolution # None THEN {"resolution"} ELSE {})
                \cup (IF p.hooks # None THEN {"hooks"} ELSE {})
    IN  [k \in keys |->
            CASE k = "metadata" -> MetadataToJson(p.metadata)
              [] k = "java" -> JavaToJson(p.java[1])
              [] k = "memory" -> MemoryToJson(p.memory[1])
              [] k = "resolution" -> p.resolution[1]
              [] k = "hooks" -> HooksToJson(p.hooks[1])]

\* the path serde gives a profile it reads: PathBuf::default()
NoPath == <<>>

\* Profile as serde reads it: an error (None) when a required key is missing
FromJson(j) ==
    IF "metadata" \notin DOMAIN j THEN None
    ELSE IF MetadataFromJson(j.metadata) = None THEN None
    ELSE IF "memory" \in DOMAIN j /\ MemoryFromJson(j.memory) = None THEN None
    ELSE Some([path |-> NoPath,
               metadata |-> MetadataFromJson(j.metadata)[1],
               java |-> IF "java" \in DOMAIN j THEN Some(JavaFromJson(j.java)) ELSE None,
               memory |-> IF "memory" \in DOMAIN j THEN MemoryFromJson(j.memory) ELSE None,
               resolution |-> IF "resolution" \in DOMAIN j THEN Some(j.resolution) ELSE None,
               hooks |-> IF "hooks" \in DOMAIN j THEN Some(HooksFromJson(j.hooks)) ELSE None])

\* the profile read keeps the path serde gave it
read_profile_default_path(fs, path) ==
    IF path \notin DOMAIN fs \/ fs[path] = None THEN Err("IOError")
    ELSE IF FromJson(fs[path][1]) = None THEN Err("JSONError")
    ELSE OkOf(FromJson(fs[path][1])[1])

\* fs::read of the profile.json of a directory, then lines 382-387
read_profile_from_dir(fs, path) ==
    IF path \notin DOMAIN fs \/ fs[path] = None THEN Err("IOError")
    ELSE IF FromJson(fs[path][1]) = None THEN Err("JSONError")
    ELSE OkOf([FromJson(fs[path][1])[1] EXCEPT !.path = path])

\* the orders in which a set can be listed
Orders(S) == {s \in [1..Cardinality(S) -> S] : Range(s) = S}

\* bincode of a list of paths: its length, then its elements
Encode(paths) == <<Len(paths)>> \o paths

\* bincode::deserialize of a list of paths: an error (None) on an input that
\* ends before the length, or holds another number of elements
Decode(bytes) ==
    IF bytes = <<>> THEN None
    ELSE IF bytes[1] # Len(bytes) - 1 THEN None
    ELSE Some(Tail(bytes))

\* Ok(self): the call hands back the store
OkSelf == [kind |-> "Ok", handle |-> "self"]

\* the number of store calls explored
MaxStoreOps == 5

\* a profile as Profile::new makes it, and one with every override set
PlainProfile == New(<<"P">>, "1.18.2", DirA).value

RichProfile ==
    [PlainProfile EXCEPT
        !.metadata.icon = Some(<<".", <<"icon", "png">>>>),
        !.metadata.loader = "forge",
        !.java = Some([install |-> Some(ProfileJavaPath), extra_arguments |-> None]),
        !.memory = Some([minimum |-> None, maximum |-> 8192]),
        !.resolution = Some(<<1920, 1080>>),
        !.hooks = Some(ProfileHooksDefault)]

\* the profiles handed to insert: path is a public field, any spelling can be in it
InsertInputs == {[c EXCEPT !.path = p] : c \in {PlainProfile, RichProfile}, p \in Paths}

\* a document no profile can be read from
Malformed == [k \in {"name"} |-> <<"P">>]

\* the sidecars found on disk when the store is created
InitialFiles ==
    {[d \in Directories |-> IF d = DirA THEN a ELSE b] :
        a \in {None, Some(ToJson(RichProfile))}, b \in {None, Some(Malformed)}}

\* the variables of the launch and of the supervisor
launchVars == <<profile, globalSettings, manifest, disk, runVars, hookVars, child, supVars>>

\* a launch that is not under way
LaunchIdle ==
    /\ InitLaunch
    /\ profile = MkProfile(KnownVersion, None, None, None, None)
    /\ globalSettings = MkSettings(Some(Java17Path), Some(Java8Path),
                                   MemorySettingsDefault, ProfileHooksDefault)
    /\ manifest = MkManifest(Some([major_version |-> 17]))
    /\ disk = JavaPaths

\* what a store call leaves alone
nonStoreVars == <<launchVars, legacyVars, builderVars, serdeVars>>

syncVars == <<syncPc, syncTodo, syncInFlight, syncSkipped>>

StoreInit ==
    /\ LaunchIdle
    /\ LegacyIdle
    /\ BuilderIdle
    /\ SerdeIdle
    /\ store = EmptyMap
    /\ files \in InitialFiles
    /\ db = None
    /\ batch = None
    /\ storeRet = None
    /\ syncPc = "idle"
    /\ syncTodo = {}
    /\ syncInFlight = {}
    /\ syncSkipped = {}
    /\ loaded = None
    /\ staged = None
    /\ persisted = None
    /\ storeOps = 0

\* a store call can begin: the one before it returned (&mut self, &self)
StoreCall ==
    /\ syncPc = "idle"
    /\ storeOps < MaxStoreOps
    /\ storeOps' = storeOps + 1

\* what a returned call leaves behind
Returned(op, path, ret) == [op |-> op, path |-> path, ret |-> ret, before |-> store]

\* Profiles::insert, lines 338-349
Insert(p) ==
    /\ StoreCall
    /\ LET key == canonicalize(p.path)
       IN  IF key = None
           THEN /\ store' = store
                /\ storeRet' = Some(Returned("insert", p.path, Err("IOError")))
           ELSE /\ store' = Put(store, key[1], p)
                /\ storeRet' = Some(Returned("insert", p.path, OkSelf))
    /\ UNCHANGED <<files, db, batch, syncVars, loaded, staged, persisted,
                   nonStoreVars>>

\* Profiles::insert_from, lines 351-353
InsertFrom(path) ==
    /\ StoreCall
    /\ LET dir == canonicalize(path)
           read == read_profile_from_dir(files, dir[1])
       IN  IF dir = None
           THEN /\ store' = store
                /\ storeRet' = Some(Returned("insert_from", path, Err("IOError")))
           ELSE IF read.kind # "Ok"
           THEN /\ store' = store
                /\ storeRet' = Some(Returned("insert_from", path, read))
           ELSE /\ store' = Put(store, canonicalize(read.value.path)[1], read.value)
                /\ storeRet' = Some(Returned("insert_from", path, OkSelf))
    /\ UNCHANGED <<files, db, batch, syncVars, loaded, staged, persisted,
                   nonStoreVars>>

\* Profiles::remove, lines 355-359
Remove(path) ==
    /\ StoreCall
    /\ LET key == canonicalize(path)
       IN  IF key = None
           THEN /\ store' = store
                /\ storeRet' = Some(Returned("remove", path, Err("IOError")))
           ELSE /\ store' = Del(store, key[1])
                /\ storeRet' = Some(Returned("remove", path, OkSelf))
    /\ UNCHANGED <<files, db, batch, syncVars, loaded, staged, persisted,
                   nonStoreVars>>

\* Profiles::sync is called, line 361: nothing is written yet
SyncStart ==
    /\ StoreCall
    /\ syncPc' = "writing"
    /\ syncTodo' = DOMAIN store
    /\ syncInFlight' = {}
    /\ syncSkipped' = {}
    /\ staged' = None
    /\ UNCHANGED <<store, files, db, batch, storeRet, loaded, persisted,
                   nonStoreVars>>

\* try_for_each_concurrent takes the next entry of the map and starts its
\* future, lines 362-371: the document is made and its write begins
SyncPoll(k) ==
    /\ syncPc = "writing"
    /\ k \in syncTodo
    /\ syncTodo' = syncTodo \ {k}
    /\ syncInFlight' = syncInFlight \cup {k}
    /\ UNCHANGED <<store, files, db, batch, storeRet, syncPc, syncSkipped, loaded, staged,
                   persisted, storeOps, nonStoreVars>>

\* the files after the writes of the keys ks
Written(ks) == [d \in DOMAIN files |-> IF d \in ks THEN Some(ToJson(store[d])) ELSE files[d]]

\* a started write ends well, line 370
SyncWriteOk(k) ==
    /\ syncPc = "writing"
    /\ k \in syncInFlight
    /\ files' = Written({k})
    /\ syncInFlight' = syncInFlight \ {k}
    /\ persisted' = None
    /\ UNCHANGED <<store, db, batch, storeRet, syncPc, syncTodo, syncSkipped, loaded,
                   staged, storeOps, nonStoreVars>>

\* a started write fails, lines 370 and 373: try_for_each_concurrent drops
\* the futures it holds and starts no further one, and sync returns the error
\* before it reaches the batch. The other writes under way each end on their
\* own, written or not.
SyncWriteError(k) ==
    /\ syncPc = "writing"
    /\ k \in syncInFlight
    /\ \E landed \in SUBSET (syncInFlight \ {k}) : files' = Written(landed)
    /\ syncSkipped' = syncTodo
    /\ syncTodo' = {}
    /\ syncInFlight' = {}
    /\ syncPc' = "idle"
    /\ persisted' = None
    /\ storeRet' = Some(Returned("sync", None, Err("IOError")))
    /\ UNCHANGED <<store, db, batch, loaded, staged, storeOps, nonStoreVars>>

\* every write ended well, lines 375-379: the keys are staged in the batch,
\* in the order the map yields them
SyncFinish ==
    /\ syncPc = "writing"
    /\ syncTodo = {}
    /\ syncInFlight = {}
    /\ \E order \in Orders(DOMAIN store) : batch' = Some(Encode(order))
    /\ staged' = Some(store)
    /\ syncPc' = "idle"
    /\ storeRet' = Some(Returned("sync", None, OkSelf))
    /\ UNCHANGED <<store, files, db, syncTodo, syncInFlight, syncSkipped, loaded,
                   persisted, storeOps, nonStoreVars>>

\* the caller applies its batch to the database
ApplyBatch ==
    /\ syncPc = "idle"
    /\ batch # None
    /\ db' = batch
    /\ batch' = None
    /\ persisted' = staged
    /\ staged' = None
    /\ storeRet' = Some(Returned("apply_batch", None, Ok))
    /\ UNCHANGED <<store, files, syncVars, loaded, storeOps, nonStoreVars>>

\* the profiles init reads for the listed paths, by path
ReadAll(paths) == [p \in Range(paths) |-> read_profile_from_dir(files, p)]

\* the first listed path whose profile cannot be read
FirstUnreadable(paths) ==
    LET bad == {i \in 1..Len(paths) : ReadAll(paths)[paths[i]].kind # "Ok"}
    IN  paths[CHOOSE i \in bad : \A j \in bad : i <= j]

\* an init that leaves out the profiles it cannot read
LoadBestEffort ==
    /\ StoreCall
    /\ LET index == Decode(UnwrapOr(db, <<>>))
       IN  IF index = None
           THEN /\ loaded' = None
                /\ storeRet' = Some(Returned("init", None, Err("BincodeError")))
           ELSE /\ loaded' = Some([p \in {q \in Range(index[1]) :
                                              ReadAll(index[1])[q].kind = "Ok"} |->
                                       ReadAll(index[1])[p].value])
                /\ storeRet' = Some(Returned("init", None, Ok))
    /\ UNCHANGED <<store, files, db, batch, syncVars, staged, persisted, nonStoreVars>>

\* Profiles::init, lines 321-336: all of the listed profiles, or an error
Load ==
    /\ StoreCall
    /\ LET index == Decode(UnwrapOr(db, <<>>))
       IN  IF index = None
           THEN /\ loaded' = None
                /\ storeRet' = Some(Returned("init", None, Err("BincodeError")))
           ELSE IF \E p \in Range(index[1]) : ReadAll(index[1])[p].kind # "Ok"
           THEN /\ loaded' = None
                /\ storeRet' = Some(Returned("init", None,
                                             ReadAll(index[1])[FirstUnreadable(index[1])]))
           ELSE /\ loaded' = Some([p \in Range(index[1]) |-> ReadAll(index[1])[p].value])
                /\ storeRet' = Some(Returned("init", None, Ok))
    /\ UNCHANGED <<store, files, db, batch, syncVars, staged, persisted, nonStoreVars>>

StoreNext ==
    \/ \E p \in InsertInputs : Insert(p)
    \/ \E path \in Paths : InsertFrom(path)
    \/ \E path \in Paths : Remove(path)
    \/ SyncStart
    \/ \E k \in Directories : SyncPoll(k)
    \/ \E k \in Directories : SyncWriteOk(k)
    \/ \E k \in Directories : SyncWriteError(k)
    \/ SyncFinish
    \/ ApplyBatch
    \/ Load

StoreSpec == StoreInit /\ [][StoreNext]_vars

----------------------------------------------------------------------------
(* Claims about the profile store of the state module. *)

\* the call that returned last is op
Last(op) == storeRet # None /\ storeRet[1].op = op

\* path names no entry of the map m, under any spelling
NotAKey(path, m) == path \notin DOMAIN m /\ \A k \in DOMAIN m : canonicalize(path) # Some(k)

\* C11: Profiles::remove(path), for every path that is not a key of the
\* store, whether or not the path exists on disk, returns without an error
\* and leaves the map as it was.
C11_RemoveUnknown ==
    (Last("remove") /\ NotAKey(storeRet[1].path, storeRet[1].before))
        => /\ storeRet[1].ret.kind = "Ok"
           /\ store = storeRet[1].before

\* C12: Profiles::remove(path) reports whether an entry existed under the
\* canonical form of the path and returns the removed Profile; after it
\* returned, the store holds no entry under that key.
C12_RemoveReports ==
    (Last("remove") /\ storeRet[1].ret.kind = "Ok")
        => LET key == canonicalize(storeRet[1].path)[1]
               before == storeRet[1].before
           IN  /\ key \notin DOMAIN store
               /\ "removed" \in DOMAIN storeRet[1].ret
               /\ storeRet[1].ret.removed =
                      (IF key \in DOMAIN before THEN Some(before[key]) ELSE None)

\* C14: when one sidecar write of a persist fails, the call reports that
\* failure and the write of every other profile of the store still takes
\* place: none is left unattempted.
C14_OtherWritesProceed ==
    (Last("sync") /\ storeRet[1].ret.kind # "Ok") => syncSkipped = {}

\* C15: once the sidecar writes of a persist have settled and it returned,
\* the entry staged under "profiles" lists exactly the keys of the store.
C15_IndexRewritten ==
    Last("sync")
        => /\ batch # None
           /\ Decode(batch[1]) # None
           /\ Range(Decode(batch[1])[1]) = DOMAIN store

\* a profile without its path
NonPath(p) == [p EXCEPT !.path = NoPath]

\* C16: a store loaded from the state a persist left behind (sidecars
\* written, batch applied) has the keys of the persisted store, and under
\* each key a Profile equal to the persisted one in every field but path.
C16_StoreRoundTrip ==
    (Last("init") /\ persisted # None)
        => /\ storeRet[1].ret.kind = "Ok"
           /\ loaded # None
           /\ DOMAIN loaded[1] = DOMAIN persisted[1]
           /\ \A k \in DOMAIN persisted[1] :
                  NonPath(loaded[1][k]) = NonPath(persisted[1][k])

\* a profile inserted under another spelling of its directory, with its
\* overrides set, was persisted and loaded again
C16_Witness ==
    /\ Last("init")
    /\ persisted # None
    /\ loaded # None
    /\ DOMAIN loaded[1] = {DirA, DirB}
    /\ persisted[1][DirA].path = AliasA
    /\ loaded[1][DirA].path = DirA
    /\ loaded[1][DirA].metadata.loader = "forge"
    /\ loaded[1][DirB].java = None

----------------------------------------------------------------------------
(* The legacy store (src-old/data/profiles.rs): one global map behind a    *)
(* read-write lock, called from concurrent tasks.                          *)

\* the number of tasks
MaxTasks == 2

\* the number of calls explored
MaxLegacyOps == 3

Tasks == 1..MaxTasks

\* a task between two calls
IdleTask == [pc |-> "idle", arg |-> None, view |-> None, pending |-> {}, failed |-> {},
             ret |-> None]

\* a task whose call op returned ret
Done(op, arg, ret) == [IdleTask EXCEPT !.ret = Some([op |-> op, arg |-> arg, ret |-> ret])]

\* read_profile_from_dir, lines 436-443: the file system resolves the path,
\* the profile keeps it as given
ReadLegacy(path) ==
    IF canonicalize(path) = None THEN Err("IOError")
    ELSE LET read == read_profile_from_dir(sidecars, canonicalize(path)[1])
         IN  IF read.kind # "Ok" THEN read ELSE OkOf([read.value EXCEPT !.path = path])

\* the profiles handed to the legacy insert
LegacyInputs == {[PlainProfile EXCEPT !.path = p] : p \in {DirA, AliasA, DirB}}

LegacyInit ==
    /\ LaunchIdle
    /\ StoreIdle
    /\ BuilderIdle
    /\ SerdeIdle
    /\ lmap = None
    /\ registry \in {{}, {DirA}}
    /\ sidecars = [d \in Directories |-> IF d = DirA THEN Some(ToJson(RichProfile)) ELSE None]
    /\ readers = {}
    /\ writer = None
    /\ tasks = [t \in Tasks |-> IdleTask]
    /\ legacyOps = 0

\* what a call to the legacy store leaves alone
nonLegacyVars == <<launchVars, storeVars, builderVars, serdeVars>>

\* task t can make a call
LegacyCall(t) ==
    /\ tasks[t].pc = "idle"
    /\ legacyOps < MaxLegacyOps
    /\ legacyOps' = legacyOps + 1

\* Profiles::init, lines 346-371, every registered profile readable:
\* get_or_init sets PROFILES unless it is set
InitOk(t) ==
    /\ LegacyCall(t)
    /\ \A p \in registry : ReadLegacy(p).kind = "Ok"
    /\ lmap' = IF lmap = None THEN Some([p \in registry |-> ReadLegacy(p).value]) ELSE lmap
    /\ tasks' = [tasks EXCEPT ![t] = Done("init", None, Ok)]
    /\ UNCHANGED <<registry, sidecars, readers, writer, nonLegacyVars>>

\* Profiles::init, a registered profile unreadable: try_join_all returns the error
InitError(t) ==
    /\ LegacyCall(t)
    /\ \E p \in registry :
          /\ ReadLegacy(p).kind # "Ok"
          /\ tasks' = [tasks EXCEPT ![t] = Done("init", None, ReadLegacy(p))]
    /\ UNCHANGED <<lmap, registry, sidecars, readers, writer, nonLegacyVars>>

\* Profiles::insert is called, lines 373-380: it waits for the write guard
CallInsert(t, p) ==
    /\ LegacyCall(t)
    /\ tasks' = [tasks EXCEPT ![t] =
                    IF lmap = None THEN Done("insert", Some(p.path), Err("InitializedError"))
                    ELSE [IdleTask EXCEPT !.pc = "insert_wait", !.arg = Some(p)]]
    /\ UNCHANGED <<lmap, registry, sidecars, readers, writer, nonLegacyVars>>

\* Profiles::insert_from, lines 390-394: the profile is read, then inserted
CallInsertFrom(t, path) ==
    /\ LegacyCall(t)
    /\ tasks' = [tasks EXCEPT ![t] =
                    IF ReadLegacy(path).kind # "Ok"
                    THEN Done("insert_from", Some(path), ReadLegacy(path))
                    ELSE IF lmap = None
                    THEN Done("insert_from", Some(path), Err("InitializedError"))
                    ELSE [IdleTask EXCEPT !.pc = "insert_wait",
                                          !.arg = Some(ReadLegacy(path).value)]]
    /\ UNCHANGED <<lmap, registry, sidecars, readers, writer, nonLegacyVars>>

\* Profiles::remove is called, lines 396-398: the path is canonicalized, and
\* PROFILES.get().unwrap() panics when PROFILES is unset
CallRemove(t, path) ==
    /\ LegacyCall(t)
    /\ tasks' = [tasks EXCEPT ![t] =
                    IF canonicalize(path) = None
                    THEN Done("remove", Some(path), Err("IOError"))
                    ELSE IF lmap = None
                    THEN [IdleTask EXCEPT !.pc = "panicked"]
                    ELSE [IdleTask EXCEPT !.pc = "remove_wait", !.arg = canonicalize(path)]]
    /\ UNCHANGED <<lmap, registry, sidecars, readers, writer, nonLegacyVars>>

\* Profiles::get is called, lines 428-434: it waits for a read guard
CallGet(t) ==
    /\ LegacyCall(t)
    /\ tasks' = [tasks EXCEPT ![t] =
                    IF lmap = None THEN Done("get", None, Err("InitializedError"))
                    ELSE [IdleTask EXCEPT !.pc = "get_wait"]]
    /\ UNCHANGED <<lmap, registry, sidecars, readers, writer, nonLegacyVars>>

\* Profiles::save is called, line 404: it begins with Self::get()
CallSave(t) ==
    /\ LegacyCall(t)
    /\ tasks' = [tasks EXCEPT ![t] =
                    IF lmap = None THEN Done("save", None, Err("InitializedError"))
                    ELSE [IdleTask EXCEPT !.pc = "save_wait"]]
    /\ UNCHANGED <<lmap, registry, sidecars, readers, writer, nonLegacyVars>>

\* a write guard handed out although tasks hold read guards
WriteAcquireOverReaders(t) ==
    /\ tasks[t].pc \in {"insert_wait", "remove_wait"}
    /\ writer = None
    /\ writer' = Some(t)
    /\ tasks' = [tasks EXCEPT ![t].pc = IF @ = "insert_wait" THEN "insert_locked"
                                        ELSE "remove_locked"]
    /\ UNCHANGED <<lmap, registry, sidecars, readers, legacyOps, nonLegacyVars>>

\* RwLock::write, lines 379-380 and 398: granted when no guard is out
WriteAcquire(t) ==
    /\ tasks[t].pc \in {"insert_wait", "remove_wait"}
    /\ writer = None
    /\ readers = {}
    /\ writer' = Some(t)
    /\ tasks' = [tasks EXCEPT ![t].pc = IF @ = "insert_wait" THEN "insert_locked"
                                        ELSE "remove_locked"]
    /\ UNCHANGED <<lmap, registry, sidecars, readers, legacyOps, nonLegacyVars>>

\* RwLock::read, line 433: granted when no write guard is out; the guard is
\* the caller's view of the map
ReadAcquire(t) ==
    /\ tasks[t].pc \in {"get_wait", "save_wait"}
    /\ writer = None
    /\ readers' = readers \cup {t}
    /\ tasks' = [tasks EXCEPT ![t].pc = IF @ = "get_wait" THEN "view" ELSE "save_locked",
                              ![t].view = lmap]
    /\ UNCHANGED <<lmap, registry, sidecars, writer, legacyOps, nonLegacyVars>>

\* insert that leaves the registry as it is
InsertApplyMapOnly(t) ==
    /\ tasks[t].pc = "insert_locked"
    /\ LET p == tasks[t].arg[1]
       IN  /\ lmap' = Some(Put(lmap[1], p.path, p))
           /\ tasks' = [tasks EXCEPT ![t] = Done("insert", Some(p.path), Ok)]
    /\ writer' = None
    /\ UNCHANGED <<registry, sidecars, readers, legacyOps, nonLegacyVars>>

\* insert under the write guard, lines 382-387: the path as the profile
\* holds it goes into the registry and becomes the key; the guard is dropped
InsertApply(t) ==
    /\ tasks[t].pc = "insert_locked"
    /\ LET p == tasks[t].arg[1]
       IN  /\ registry' = registry \cup {p.path}
           /\ lmap' = Some(Put(lmap[1], p.path, p))
           /\ tasks' = [tasks EXCEPT ![t] = Done("insert", Some(p.path), Ok)]
    /\ writer' = None
    /\ UNCHANGED <<sidecars, readers, legacyOps, nonLegacyVars>>

\* remove under the write guard, lines 399-400
RemoveApply(t) ==
    /\ tasks[t].pc = "remove_locked"
    /\ LET path == tasks[t].arg[1]
       IN  /\ registry' = registry \ {path}
           /\ lmap' = Some(Del(lmap[1], path))
           /\ tasks' = [tasks EXCEPT ![t] =
                           Done("remove", Some(path),
                                [kind |-> "Ok",
                                 removed |-> IF path \in DOMAIN lmap[1]
                                             THEN Some(lmap[1][path]) ELSE None])]
    /\ writer' = None
    /\ UNCHANGED <<sidecars, readers, legacyOps, nonLegacyVars>>

\* the caller of get drops its view
DropView(t) ==
    /\ tasks[t].pc = "view"
    /\ readers' = readers \ {t}
    /\ tasks' = [tasks EXCEPT ![t] = Done("get", None, Ok)]
    /\ UNCHANGED <<lmap, registry, sidecars, writer, legacyOps, nonLegacyVars>>

\* save clones the map and spawns one task per entry, lines 406-419
SaveClone(t) ==
    /\ tasks[t].pc = "save_locked"
    /\ tasks' = [tasks EXCEPT ![t].pc = "saving", ![t].arg = lmap,
                              ![t].pending = DOMAIN lmap[1]]
    /\ UNCHANGED <<lmap, registry, sidecars, readers, writer, legacyOps, nonLegacyVars>>

\* the task of one entry writes its profile.json, lines 409-417
SaveWriteOk(t, k) ==
    /\ tasks[t].pc = "saving"
    /\ k \in tasks[t].pending
    /\ canonicalize(k) # None
    /\ sidecars' = [sidecars EXCEPT ![canonicalize(k)[1]] = Some(ToJson(tasks[t].arg[1][k]))]
    /\ tasks' = [tasks EXCEPT ![t].pending = @ \ {k}]
    /\ UNCHANGED <<lmap, registry, readers, writer, legacyOps, nonLegacyVars>>

\* the write of one entry fails, line 416
SaveWriteError(t, k) ==
    /\ tasks[t].pc = "saving"
    /\ k \in tasks[t].pending
    /\ tasks' = [tasks EXCEPT ![t].pending = @ \ {k}, ![t].failed = @ \cup {k}]
    /\ UNCHANGED <<lmap, registry, sidecars, readers, writer, legacyOps, nonLegacyVars>>

\* every task was joined, lines 420-425: the first error is returned, and
\* the read guard is dropped
SaveEnd(t) ==
    /\ tasks[t].pc = "saving"
    /\ tasks[t].pending = {}
    /\ readers' = readers \ {t}
    /\ tasks' = [tasks EXCEPT ![t] =
                    Done("save", None, IF tasks[t].failed = {} THEN Ok ELSE Err("IOError"))]
    /\ UNCHANGED <<lmap, registry, sidecars, writer, legacyOps, nonLegacyVars>>

LegacyNext ==
    \/ \E t \in Tasks : InitOk(t)
    \/ \E t \in Tasks : InitError(t)
    \/ \E t \in Tasks, p \in LegacyInputs : CallInsert(t, p)
    \/ \E t \in Tasks, path \in Paths : CallInsertFrom(t, path)
    \/ \E t \in Tasks, path \in Paths : CallRemove(t, path)
    \/ \E t \in Tasks : CallGet(t)
    \/ \E t \in Tasks : CallSave(t)
    \/ \E t \in Tasks : WriteAcquire(t)
    \/ \E t \in Tasks : ReadAcquire(t)
    \/ \E t \in Tasks : InsertApply(t)
    \/ \E t \in Tasks : RemoveApply(t)
    \/ \E t \in Tasks : DropView(t)
    \/ \E t \in Tasks : SaveClone(t)
    \/ \E t \in Tasks, k \in Paths : SaveWriteOk(t, k)
    \/ \E t \in Tasks, k \in Paths : SaveWriteError(t, k)
    \/ \E t \in Tasks : SaveEnd(t)

LegacySpec == LegacyInit /\ [][LegacyNext]_vars

\* C13: insert stores the profile under the canonical form of its path,
\* replacing the entry of that key: whatever insert, insert_from and remove
\* calls were made, every key of the store is a canonical path and no two
\* keys lead to the same directory.
C13_KeysCanonical ==
    lmap # None
        => /\ \A k \in DOMAIN lmap[1] : canonicalize(k) = Some(k)
           /\ \A k1, k2 \in DOMAIN lmap[1] :
                  canonicalize(k1) = canonicalize(k2) => k1 = k2

\* C20: in the legacy store no task holds the write guard while another
\* holds a read guard, the map is what it was when each view in use was
\* handed out by get, and while save serializes and writes, the map is the
\* one save cloned.
C20_ReadersExcludeWriters ==
    /\ writer # None => readers = {}
    /\ \A t \in Tasks :
          /\ t \in readers <=> tasks[t].pc \in {"view", "save_locked", "saving"}
          /\ t \in readers => tasks[t].view = lmap
          /\ tasks[t].pc = "saving" => tasks[t].arg = lmap

\* two tasks hold views of a map with entries at the same time, one of them
\* inside save
C20_Witness ==
    /\ Cardinality(readers) = 2
    /\ lmap # None
    /\ DOMAIN lmap[1] # {}
    /\ \E t \in Tasks : tasks[t].pc = "saving"
    /\ \E t \in Tasks : tasks[t].pc = "view"

\* a task waits for the write guard while another holds a view
C20_WitnessBlocked ==
    /\ readers # {}
    /\ \E t \in Tasks : tasks[t].pc \in {"insert_wait", "remove_wait"}

----------------------------------------------------------------------------
(* Building a Profile (src/state/profiles.rs): Profile::new and the        *)
(* with_ mutators.                                                         *)

\* the longest name tried
MaxNameLen == 2

\* the number of calls explored
MaxBuilderOps == 3

\* the names of at most MaxNameLen characters
Names == UNION {[1..n -> Chars] : n \in 0..MaxNameLen}

SUPPORTED_ICON_FORMATS ==
    {"bmp", "gif", "jpeg", "jpg", "jpe", "png", "svg", "svgz", "webp", "rgb", "mp4"}

\* an icon file is named by the pieces of its file name between the dots
IconFiles ==
    {<<"logo", "png">>, <<"missing", "png">>, <<"logo", "exe">>, <<"logo">>,
     <<"", "png">>, <<"logo", "PNG">>, <<"clip", "tar", "mp4">>}

\* the icon files that can be read
ReadableIcons == IconFiles \ {<<"missing", "png">>}

\* Path::extension: what follows the last dot of the file name, if the name
\* has a dot that is not its first character
extension(file) ==
    IF Len(file) < 2 \/ (Len(file) = 2 /\ file[1] = "") THEN None
    ELSE Some(file[Len(file)])

\* the file name format!("icon.{ext}")
IconName(ext) == <<"icon", ext>>

BuilderInit ==
    /\ LaunchIdle
    /\ StoreIdle
    /\ LegacyIdle
    /\ SerdeIdle
    /\ built = None
    /\ builtRet = None
    /\ copies = {}
    /\ builderOps = 0

\* what a call on a Profile leaves alone
nonBuilderVars == <<launchVars, storeVars, legacyVars, serdeVars>>

BuilderCall ==
    /\ builderOps < MaxBuilderOps
    /\ builderOps' = builderOps + 1

\* what the call op(arg) that returned ret leaves behind
Called(op, arg, ret) ==
    Some([op |-> op, arg |-> arg, ret |-> ret, before |-> built, copiesBefore |-> copies])

\* Profile::new(name, version, path), lines 89-115
CallNew(name, version, path) ==
    /\ BuilderCall
    /\ built = None
    /\ built' = IF New(name, version, path).kind = "Ok"
                THEN Some(New(name, version, path).value) ELSE None
    /\ builtRet' = Called("new", [name |-> name, version |-> version, path |-> path],
                          [kind |-> New(name, version, path).kind])
    /\ UNCHANGED <<copies, nonBuilderVars>>

\* a mutator that cannot fail set the Profile to p
Mutated(op, arg, p) ==
    /\ BuilderCall
    /\ built # None
    /\ built' = Some(p)
    /\ builtRet' = Called(op, arg, OkSelf)
    /\ UNCHANGED <<copies, nonBuilderVars>>

\* Profile::with_name, lines 250-253
WithName(name) == Mutated("with_name", name, [built[1] EXCEPT !.metadata.name = name])

\* the icon recorded before the file is copied
WithIconSetFirst(icon) ==
    LET ext == UnwrapOr(extension(icon), "")
    IN  /\ BuilderCall
        /\ built # None
        /\ IF ext \notin SUPPORTED_ICON_FORMATS
           THEN /\ builtRet' = Called("with_icon", icon, Err("InputError"))
                /\ UNCHANGED <<built, copies>>
           ELSE /\ built' = Some([built[1] EXCEPT
                                     !.metadata.icon = Some(<<".", IconName(ext)>>)])
                /\ IF icon \in ReadableIcons
                   THEN /\ copies' = copies \cup {[from |-> icon,
                                                   to |-> <<built[1].path, IconName(ext)>>]}
                        /\ builtRet' = Called("with_icon", icon, OkSelf)
                   ELSE /\ builtRet' = Called("with_icon", icon, Err("IOError"))
                        /\ UNCHANGED copies
        /\ UNCHANGED nonBuilderVars

\* Profile::with_icon, lines 255-273
WithIcon(icon) ==
    LET ext == UnwrapOr(extension(icon), "")
    IN  /\ BuilderCall
        /\ built # None
        /\ IF ext \notin SUPPORTED_ICON_FORMATS
           THEN /\ builtRet' = Called("with_icon", icon, Err("InputError"))
                /\ UNCHANGED <<built, copies>>
           ELSE IF icon \notin ReadableIcons
           THEN /\ builtRet' = Called("with_icon", icon, Err("IOError"))
                /\ UNCHANGED <<built, copies>>
           ELSE /\ copies' = copies \cup {[from |-> icon,
                                           to |-> <<built[1].path, IconName(ext)>>]}
                /\ built' = Some([built[1] EXCEPT
                                     !.metadata.icon = Some(<<".", IconName(ext)>>)])
                /\ builtRet' = Called("with_icon", icon, OkSelf)
        /\ UNCHANGED nonBuilderVars

\* Profile::with_game_version, lines 275-278
WithGameVersion(version) ==
    Mutated("with_game_version", version, [built[1] EXCEPT !.metadata.game_version = version])

\* Profile::with_loader, lines 280-288
WithLoader(loader, version) ==
    Mutated("with_loader", <<loader, version>>,
            [built[1] EXCEPT !.metadata.loader = loader, !.metadata.loader_version = version])

\* Profile::with_java_settings, lines 290-296
WithJavaSettings(v) == Mutated("with_java_settings", v, [built[1] EXCEPT !.java = v])

\* Profile::with_memory, lines 298-304
WithMemory(v) == Mutated("with_memory", v, [built[1] EXCEPT !.memory = v])

\* Profile::with_resolution, lines 306-312
WithResolution(v) == Mutated("with_resolution", v, [built[1] EXCEPT !.resolution = v])

\* Profile::with_hooks, lines 314-317
WithHooks(v) == Mutated("with_hooks", v, [built[1] EXCEPT !.hooks = v])

BuilderNext ==
    \/ \E name \in Names, path \in Paths : CallNew(name, KnownVersion, path)
    \/ \E name \in Names : WithName(name)
    \/ \E icon \in IconFiles : WithIcon(icon)
    \/ WithGameVersion(UnknownVersion)
    \/ WithLoader("forge", Some("43.2.0"))
    \/ \E v \in {None, Some([install |-> Some(ProfileJavaPath), extra_arguments |-> None])} :
          WithJavaSettings(v)
    \/ \E v \in MemoryOverrides : WithMemory(v)
    \/ \E v \in ResolutionOverrides : WithResolution(v)
    \/ \E v \in {None, Some(ProfileHooksDefault)} : WithHooks(v)

BuilderSpec == BuilderInit /\ [][BuilderNext]_vars

\* the call made last on the Profile is op
LastCall(op) == builtRet # None /\ builtRet[1].op = op

\* a Profile as Profile::new is to leave it, but for its name and version
FreshProfile(p) ==
    /\ p.metadata.loader = "vanilla"
    /\ p.metadata.format_version = CURRENT_FORMAT_VERSION
    /\ p.metadata.icon = None
    /\ p.metadata.loader_version = None
    /\ p.java = None
    /\ p.memory = None
    /\ p.resolution = None
    /\ p.hooks = None

\* C17 as stated: Profile::new fails with InputError and makes no profile
\* for a name that is empty or all whitespace, and succeeds for every other
\* name, storing it as given, with the default loader, the current format
\* version and no override.
C17_NewSucceedsForAnyOtherName ==
    LastCall("new")
        => IF trim(builtRet[1].arg.name) = <<>>
           THEN builtRet[1].ret.kind = "InputError" /\ built = None
           ELSE /\ builtRet[1].ret.kind = "Ok"
                /\ built # None
                /\ built[1].metadata.name = builtRet[1].arg.name
                /\ FreshProfile(built[1])

\* C17, amended: Profile::new fails with InputError for a blank name; for
\* any other name it fails with the I/O error of canonicalize when the path
\* leads nowhere, and otherwise succeeds, storing the name as given, with the
\* default loader, the current format version and no override. A failed
\* call makes no profile.
C17_NewValidatesName ==
    LastCall("new")
        => IF trim(builtRet[1].arg.name) = <<>>
           THEN builtRet[1].ret.kind = "InputError" /\ built = None
           ELSE IF canonicalize(builtRet[1].arg.path) = None
           THEN builtRet[1].ret.kind = "IOError" /\ built = None
           ELSE /\ builtRet[1].ret.kind = "Ok"
                /\ built # None
                /\ built[1].metadata.name = builtRet[1].arg.name
                /\ built[1].metadata.game_version = builtRet[1].arg.version
                /\ FreshProfile(built[1])

\* a name with spaces around it was accepted and stored with them
C17_Witness ==
    /\ LastCall("new")
    /\ builtRet[1].arg.name = <<" ", "P">>
    /\ built # None
    /\ built[1].metadata.name = <<" ", "P">>

\* a name of whitespace only was refused
C17_WitnessBlank ==
    /\ LastCall("new")
    /\ builtRet[1].arg.name = <<" ", "\t">>
    /\ builtRet[1].ret.kind = "InputError"
    /\ built = None

\* C18: every Profile that Profile::new and the mutators produce has a
\* name that is not empty once trimmed.
C18_NameNeverBlank ==
    built # None => trim(built[1].metadata.name) # <<>>

\* C19: with_icon with an extension outside the supported set fails with
\* InputError, copies nothing and leaves the Profile as it was; with a
\* supported extension ext it either copies the file to icon.<ext> in the
\* profile directory and sets metadata.icon to ./icon.<ext>, or fails on the
\* copy and leaves the Profile as it was.
C19_WithIcon ==
    LastCall("with_icon")
        => LET icon == builtRet[1].arg
               ext == IF extension(icon) = None THEN "" ELSE extension(icon)[1]
               before == builtRet[1].before
               copy == [from |-> icon, to |-> <<before[1].path, <<"icon", ext>>>>]
           IN  IF ext \notin SUPPORTED_ICON_FORMATS
               THEN /\ builtRet[1].ret.kind = "InputError"
                    /\ copies = builtRet[1].copiesBefore
                    /\ built = before
               ELSE IF builtRet[1].ret.kind = "Ok"
               THEN /\ copy \in copies
                    /\ built = Some([before[1] EXCEPT
                                        !.metadata.icon = Some(<<".", <<"icon", ext>>>>)])
               ELSE /\ builtRet[1].ret.kind = "IOError"
                    /\ copies = builtRet[1].copiesBefore
                    /\ built = before

\* a file with a supported extension was copied and became the icon
C19_Witness ==
    /\ LastCall("with_icon")
    /\ builtRet[1].arg = <<"clip", "tar", "mp4">>
    /\ builtRet[1].ret.kind = "Ok"
    /\ built[1].metadata.icon = Some(<<".", <<"icon", "mp4">>>>)

\* a copy failed after an earlier icon was set: the earlier icon stays
C19_WitnessCopyFailed ==
    /\ LastCall("with_icon")
    /\ builtRet[1].arg = <<"missing", "png">>
    /\ builtRet[1].ret.kind = "IOError"
    /\ built[1].metadata.icon = Some(<<".", <<"icon", "mp4">>>>)

\* a file without a supported extension was refused
C19_WitnessRefused ==
    /\ LastCall("with_icon")
    /\ builtRet[1].arg \in {<<"logo", "PNG">>, <<"", "png">>}
    /\ builtRet[1].ret.kind = "InputError"

\* task t returns from insert, insert_from or remove with an error
ReturnsError(t) ==
    /\ tasks'[t] # tasks[t]
    /\ tasks'[t].pc = "idle"
    /\ tasks'[t].ret # None
    /\ tasks'[t].ret[1].op \in {"insert", "insert_from", "remove"}
    /\ tasks'[t].ret[1].ret.kind # "Ok"

\* C21: in the legacy store, once init succeeded and whatever insert,
\* insert_from and remove calls the tasks interleave, the registry of the
\* settings equals the key set of the map whenever no task holds the write
\* guard, and a call that returns an error changes neither of them.
C21_Step ==
    /\ (lmap' # None /\ writer' = None) => registry' = DOMAIN lmap'[1]
    /\ \A t \in Tasks : ReturnsError(t) => (lmap' = lmap /\ registry' = registry)

C21_RegistryConsistent == [][C21_Step]_vars

\* after init, an insert and a remove, the registry and the map both hold
\* the inserted path only
C21_Witness ==
    /\ lmap # None
    /\ writer = None
    /\ registry = {DirB}
    /\ DOMAIN lmap[1] = {DirB}
    /\ \E t \in Tasks : /\ tasks[t].ret # None
                        /\ tasks[t].ret[1].op = "remove"
                        /\ tasks[t].ret[1].ret.kind = "Ok"

\* an insert_from failed on a store with entries
C21_WitnessError ==
    /\ lmap # None
    /\ registry # {}
    /\ \E t \in Tasks : /\ tasks[t].ret # None
                        /\ tasks[t].ret[1].op = "insert_from"
                        /\ tasks[t].ret[1].ret.kind # "Ok"

----------------------------------------------------------------------------
(* The sidecar form of a Profile: serializing a Profile and reading it     *)
(* back (src/state/profiles.rs).                                           *)

\* the Profiles that Profile::new and the mutators can make, over a few
\* values of each field
SerdeProfiles ==
    {[path |-> DirA,
      metadata |-> [name |-> n, icon |-> i, game_version |-> KnownVersion, loader |-> l,
                    loader_version |-> lv, format_version |-> CURRENT_FORMAT_VERSION],
      java |-> j, memory |-> m, resolution |-> r, hooks |-> h] :
        n \in {<<"P">>, <<" ", "P">>},
        i \in {None, Some(<<".", IconName("png")>>)},
        l \in {"vanilla", "forge", "fabric"},
        lv \in {None, Some("43.2.0")},
        j \in {None,
               Some([install |-> Some(ProfileJavaPath), extra_arguments |-> None]),
               Some([install |-> None, extra_arguments |-> Some(<<>>)]),
               Some([install |-> Some(ProfileJavaPath),
                     extra_arguments |-> Some(ProfileJavaArgs)])},
        m \in MemoryOverrides,
        r \in ResolutionOverrides,
        h \in {None, Some(ProfileHooksDefault),
               Some([pre_launch |-> {HookCmd(1)}, wrapper |-> Some(ProfileWrapper),
                     post_exit |-> {HookCmd(2)}])}}

SerdeInit ==
    /\ LaunchIdle
    /\ StoreIdle
    /\ LegacyIdle
    /\ built \in {Some(p) : p \in SerdeProfiles}
    /\ builtRet = None
    /\ copies = {}
    /\ builderOps = 0
    /\ doc = None
    /\ parsed = None

\* serde_json::to_vec_pretty(&profile), line 365
Serialize ==
    /\ doc = None
    /\ parsed = None
    /\ doc' = Some(ToJson(built[1]))
    /\ UNCHANGED <<parsed, launchVars, storeVars, legacyVars, builderVars>>

\* a document written by other means, as the one of lines 424-439: it has a
\* path key, and no loader key
WriteByHand ==
    /\ doc = None
    /\ parsed = None
    /\ LET json == ToJson(built[1])
           meta == [k \in DOMAIN json.metadata \ {"loader"} |-> json.metadata[k]]
       IN  doc' = Some([k \in DOMAIN json \cup {"path"} |->
                           CASE k = "path" -> DirB
                             [] k = "metadata" -> meta
                             [] OTHER -> json[k]])
    /\ UNCHANGED <<parsed, launchVars, storeVars, legacyVars, builderVars>>

\* read_profile_from_dir(dir), lines 382-387, with the document as the
\* profile.json of dir
ReadProfile(dir) ==
    /\ parsed = None
    /\ parsed' = Some([dir |-> dir,
                       ret |-> read_profile_from_dir([d \in {dir} |-> doc], dir)])
    /\ UNCHANGED <<doc, launchVars, storeVars, legacyVars, builderVars>>

SerdeNext ==
    \/ Serialize
    \/ WriteByHand
    \/ \E dir \in {DirA, DirB} : ReadProfile(dir)

SerdeSpec == SerdeInit /\ [][SerdeNext]_vars

C22_WitnessByHand ==
    /\ doc # None
    /\ "path" \in DOMAIN doc[1]
    /\ parsed # None
    /\ parsed[1].dir = DirB
    /\ parsed[1].ret.kind = "Ok"
    /\ parsed[1].ret.value.metadata.loader = "vanilla"
    /\ built[1].metadata.loader = "forge"

----------------------------------------------------------------------------
(* Loading the store from what an earlier run left: the index of the       *)
(* state module's store, the registry of the legacy one, and the sidecars  *)
(* on disk.                                                                *)

\* the values found under PROFILE_SUBTREE: none, no bytes, the list of some
\* paths in some order, a list cut short
IndexValues ==
    {None, Some(<<>>), Some(<<2, DirA>>)}
    \cup {Some(Encode(o)) : o \in UNION {Orders(S) : S \in SUBSET {DirA, DirB, Gone}}}

\* the sidecars found on disk: none, one that is no profile, or a profile
SidecarSets ==
    [Directories -> {None, Some(Malformed), Some(ToJson(RichProfile))}]

ReloadInit ==
    /\ LaunchIdle
    /\ BuilderIdle
    /\ SerdeIdle
    /\ store = EmptyMap
    /\ files \in SidecarSets
    /\ db \in IndexValues
    /\ batch = None
    /\ storeRet = None
    /\ syncPc = "idle"
    /\ syncTodo = {}
    /\ syncInFlight = {}
    /\ syncSkipped = {}
    /\ loaded = None
    /\ staged = None
    /\ persisted = None
    /\ storeOps = 0
    /\ lmap = None
    /\ registry \in SUBSET {DirA, DirB, Gone}
    /\ sidecars = files
    /\ readers = {}
    /\ writer = None
    /\ tasks = [t \in Tasks |-> IdleTask]
    /\ legacyOps = 0

ReloadNext ==
    \/ Load
    \/ \E t \in Tasks : InitOk(t)
    \/ \E t \in Tasks : InitError(t)

ReloadSpec == ReloadInit /\ [][ReloadNext]_vars

\* the index under PROFILE_SUBTREE does not decode, or lists a path whose
\* sidecar cannot be read as a profile
IndexUnloadable ==
    \/ Decode(UnwrapOr(db, <<>>)) = None
    \/ \E i \in 1..Len(Decode(UnwrapOr(db, <<>>))[1]) :
          read_profile_from_dir(files, Decode(UnwrapOr(db, <<>>))[1][i]).kind # "Ok"

\* the registry lists a path whose sidecar cannot be read as a profile
RegistryUnloadable == \E p \in registry : ReadLegacy(p).kind # "Ok"

\* C23: an init over an index that does not decode or that lists a path
\* whose sidecar is missing or malformed returns an error and makes no
\* store, and the keys of the store of an init that succeeds are the paths
\* the index lists; a legacy init over a registry that lists such a path
\* returns an error and leaves the global store unset, and one that
\* succeeds sets it with the registered paths as keys.
C23_LoadAllOrNothing ==
    /\ storeRet # None
          => IF IndexUnloadable
             THEN storeRet[1].ret.kind # "Ok" /\ loaded = None
             ELSE /\ storeRet[1].ret.kind = "Ok"
                  /\ loaded # None
                  /\ DOMAIN loaded[1] = Range(Decode(UnwrapOr(db, <<>>))[1])
    /\ \A t \in Tasks :
          tasks[t].ret # None
             => IF RegistryUnloadable
                THEN tasks[t].ret[1].ret.kind # "Ok" /\ lmap = None
                ELSE /\ tasks[t].ret[1].ret.kind = "Ok"
                     /\ lmap # None
                     /\ DOMAIN lmap[1] = registry

\* an init over an index of two paths, the second of which has a malformed
\* sidecar, returned the error and made no store
C23_Witness ==
    /\ db = Some(Encode(<<DirA, DirB>>))
    /\ files[DirA] = Some(ToJson(RichProfile))
    /\ files[DirB] = Some(Malformed)
    /\ storeRet # None
    /\ storeRet[1].op = "init"
    /\ storeRet[1].ret.kind = "JSONError"
    /\ loaded = None

\* an init over an index of two paths loaded both
C23_WitnessLoaded ==
    /\ db = Some(Encode(<<DirB, DirA>>))
    /\ storeRet # None
    /\ storeRet[1].ret.kind = "Ok"
    /\ loaded # None
    /\ DOMAIN loaded[1] = {DirA, DirB}

\* a legacy init over a registry of a readable and an unreadable profile
\* returned the error, the global store unset
C23_WitnessLegacy ==
    /\ registry = {DirA, DirB}
    /\ sidecars[DirA] = Some(ToJson(RichProfile))
    /\ sidecars[DirB] = None
    /\ lmap = None
    /\ \E t \in Tasks :
          /\ tasks[t].ret # None
          /\ tasks[t].ret[1].op = "init"
          /\ tasks[t].ret[1].ret.kind = "IOError"

----------------------------------------------------------------------------
(* Calls made before the store is loaded. *)

\* C24: while the legacy global store is unset, no call to it has panicked,
\* and every insert, insert_from, remove, save and get that returned gave
\* its caller an InitializedError (calls on a path that holds no readable
\* profile, which fail on the path before they reach the store, set aside).
C24_UninitializedError ==
    lmap = None
       => \A t \in Tasks :
             /\ tasks[t].pc # "panicked"
             /\ (/\ tasks[t].ret # None
                 /\ tasks[t].ret[1].op \in {"insert", "insert_from", "remove", "save", "get"}
                 /\ (tasks[t].ret[1].arg = None
                       \/ ReadLegacy(tasks[t].ret[1].arg[1]).kind = "Ok"))
                  => tasks[t].ret[1].ret.kind = "InitializedError"

\* C25: an init over a backend that holds nothing under PROFILE_SUBTREE
\* succeeds, and the store it returns is empty.
C25_FreshBackendLoads ==
    (Last("init") /\ db = None)
       => /\ storeRet[1].ret.kind = "Ok"
          /\ loaded = Some(EmptyMap)

====
